---- MODULE Spec2Model ----
(***************************************************************************)
(* A model of BoundedNumber<T, Min, Max> (src/main.cpp).                   *)
(*                                                                         *)
(* Numbers.  C++ values of every arithmetic type are modelled by their     *)
(* exact mathematical value, written in binary sign-magnitude form:        *)
(*     [neg |-> b, mag |-> S]   stands for   (-1)^b * SUM {2^i : i \in S}  *)
(* (S a finite set of integers; negative positions are fractional bits,    *)
(* zero is [neg |-> FALSE, mag |-> {}]).  The form holds 64-bit integers   *)
(* and floating-point values exactly, which TLC's own integers cannot.     *)
(* The types have the widths of the LP64 x86-64 ABI.                       *)
(*                                                                         *)
(* Undefined behaviour.  std::clamp with hi < lo is undefined; the model   *)
(* gives it the outcome of each standard library a build may use (stdlib). *)
(* The inputs are finite numbers; no conversion of the model leaves the    *)
(* range of its floating-point target.                                     *)
(***************************************************************************)
EXTENDS Integers, FiniteSets

(***************************************************************************)
(* Exact numbers                                                           *)
(***************************************************************************)
MaxOf(S) == CHOOSE x \in S : \A y \in S : y <= x

\* the binary digits of n, 0 <= n < 2^31
BitsOf(n) == {i \in 0..30 : (n \div (2^i)) % 2 = 1}

\* the model's number for the integer n, -2^31 < n < 2^31
Num(n) == IF n < 0 THEN [neg |-> TRUE, mag |-> BitsOf(-n)]
                   ELSE [neg |-> FALSE, mag |-> BitsOf(n)]

\* x * 2^k
Scale(x, k) == [neg |-> x.neg, mag |-> {i + k : i \in x.mag}]

\* -x
Negate(x) == IF x.mag = {} THEN x ELSE [neg |-> ~x.neg, mag |-> x.mag]

\* A < B for magnitudes: the highest bit in which they differ is B's
MagLess(A, B) == \E b \in B \ A : \A a \in A \ B : a < b

\* a < b, a <= b as mathematical numbers
Less(a, b) ==
  IF a.neg # b.neg THEN a.neg
  ELSE IF a.neg THEN MagLess(b.mag, a.mag) ELSE MagLess(a.mag, b.mag)

LessEq(a, b) == ~Less(b, a)

\* the magnitude S + 2^c (binary carry from position c upwards)
Inc(S, c) ==
  LET top == IF S = {} THEN c ELSE IF MaxOf(S) < c THEN c ELSE MaxOf(S)
      j   == CHOOSE k \in c..(top + 1) : k \notin S /\ \A i \in c..(k - 1) : i \in S
  IN  (S \ (c..(j - 1))) \cup {j}

(***************************************************************************)
(* The arithmetic types                                                    *)
(***************************************************************************)
SignedTypes   == {"signed char", "short", "int", "long", "long long"}
UnsignedTypes == {"unsigned char", "unsigned short", "unsigned int",
                  "unsigned long", "unsigned long long"}
FloatTypes    == {"float", "double", "long double"}

\* std::integral<T>, std::floating_point<T>, std::is_arithmetic_v<T>
integral(t)       == t \in SignedTypes \cup UnsignedTypes
floating_point(t) == t \in FloatTypes
is_arithmetic(t)  == integral(t) \/ floating_point(t)

\* width in bits of an integral type
Width(t) ==
  CASE t \in {"signed char", "unsigned char"}  -> 8
    [] t \in {"short", "unsigned short"}       -> 16
    [] t \in {"int", "unsigned int"}           -> 32
    [] OTHER                                   -> 64

\* integer conversion rank; for floating types their order float < double < long double
Rank(t) ==
  CASE t \in {"signed char", "unsigned char"}        -> 1
    [] t \in {"short", "unsigned short"}             -> 2
    [] t \in {"int", "unsigned int"}                 -> 3
    [] t \in {"long", "unsigned long"}               -> 4
    [] t \in {"long long", "unsigned long long"}     -> 5
    [] t = "float"                                   -> 6
    [] t = "double"                                  -> 7
    [] OTHER                                         -> 8

\* std::numeric_limits<T>::digits and max_exponent - 1 of a floating type
Digits(t) == CASE t = "float" -> 24 [] t = "double" -> 53 [] OTHER -> 64
MaxExp(t) == CASE t = "float" -> 127 [] t = "double" -> 1023 [] OTHER -> 16383

\* std::numeric_limits<T>::max() and ::lowest()
numeric_limits_max(t) ==
  IF floating_point(t)
  THEN [neg |-> FALSE, mag |-> (MaxExp(t) - Digits(t) + 1)..MaxExp(t)]
  ELSE IF t \in SignedTypes THEN [neg |-> FALSE, mag |-> 0..(Width(t) - 2)]
  ELSE [neg |-> FALSE, mag |-> 0..(Width(t) - 1)]

numeric_limits_lowest(t) ==
  IF floating_point(t) THEN Negate(numeric_limits_max(t))
  ELSE IF t \in SignedTypes THEN [neg |-> TRUE, mag |-> {Width(t) - 1}]
  ELSE [neg |-> FALSE, mag |-> {}]

(***************************************************************************)
(* Conversions                                                             *)
(***************************************************************************)
\* the residue of x modulo 2^w, as a magnitude
LowBits(x, w) ==
  LET low == x.mag \cap (0..(w - 1))
  IN  IF ~x.neg \/ low = {} THEN low ELSE Inc((0..(w - 1)) \ low, 0) \cap (0..(w - 1))

\* conversion to an integral type: the fraction is discarded, then the value
\* is reduced modulo 2^Width (two's complement for the signed types)
ToIntegral(t, x) ==
  LET w == Width(t)
      u == LowBits([neg |-> x.neg, mag |-> {i \in x.mag : i >= 0}], w)
  IN  IF t \in SignedTypes /\ (w - 1) \in u
      THEN [neg |-> TRUE, mag |-> Inc((0..(w - 1)) \ u, 0)]
      ELSE [neg |-> FALSE, mag |-> u]

\* conversion to a floating type: round to nearest, ties to even, at p digits
RoundTo(p, x) ==
  IF x.mag = {} THEN x
  ELSE LET cut  == MaxOf(x.mag) - p + 1
           kept == {i \in x.mag : i >= cut}
           up   == (cut - 1) \in x.mag
                   /\ (cut \in x.mag \/ \E i \in x.mag : i < cut - 1)
       IN  [neg |-> x.neg, mag |-> IF up THEN Inc(kept, cut) ELSE kept]

\* static_cast<t>(x)
static_cast(t, x) ==
  IF floating_point(t) THEN RoundTo(Digits(t), x) ELSE ToIntegral(t, x)

\* the integral promotions
Promote(t) == IF integral(t) /\ Rank(t) < 3 THEN "int" ELSE t

ToUnsigned(t) ==
  CASE t = "int" -> "unsigned int" [] t = "long" -> "unsigned long"
    [] OTHER -> "unsigned long long"

\* the usual arithmetic conversions: the type in which a binary operator
\* compares operands of types t and u
CommonType(t, u) ==
  IF floating_point(t) \/ floating_point(u)
  THEN IF ~floating_point(u) THEN t
       ELSE IF ~floating_point(t) THEN u
       ELSE IF Rank(t) >= Rank(u) THEN t ELSE u
  ELSE LET a == Promote(t)
           b == Promote(u)
           s == IF a \in SignedTypes THEN a ELSE b
           n == IF a \in SignedTypes THEN b ELSE a
       IN  IF (a \in SignedTypes) = (b \in SignedTypes)
           THEN IF Rank(a) >= Rank(b) THEN a ELSE b
           ELSE IF Rank(n) >= Rank(s) THEN n
           ELSE IF Width(s) > Width(n) THEN s
           ELSE ToUnsigned(s)

\* a typed value, as an expression of the program has
Val(t, x) == [ty |-> t, val |-> x]

\* the built-in a <= b and a >= b on typed operands
OpLessEq(a, b) ==
  LET c == CommonType(a.ty, b.ty)
  IN  LessEq(static_cast(c, a.val), static_cast(c, b.val))

OpGreaterEq(a, b) == OpLessEq(b, a)

(***************************************************************************)
(* The concepts                                                            *)
(***************************************************************************)
\* T can contain Min and Max.
CanContainBounds(T, Min, Max) ==
  /\ is_arithmetic(T)
  /\ OpGreaterEq(Val(T, numeric_limits_max(T)), Max)
  /\ OpLessEq(Val(T, numeric_limits_lowest(T)), Min)
  /\ OpLessEq(Min, Max)

\* T and U are either both integrals or both floating point types.
SameNumericType(T, U) ==
  \/ integral(T) /\ integral(U)
  \/ floating_point(T) /\ floating_point(U)

(***************************************************************************)
(* BoundedNumber<T, Min, Max>                                              *)
(***************************************************************************)
\* a template argument list <T, Min, Max>; Min and Max are `auto` non-type
\* parameters and carry the type of the constant written for them
Args(T, tmin, Min, tmax, Max) == [T |-> T, Min |-> Val(tmin, Min), Max |-> Val(tmax, Max)]

\* the instantiations the program may ask for, by name
Params(name) ==
  CASE name = "BoundedNumber<unsigned int, -1, 10>"
         -> Args("unsigned int", "int", Num(-1), "int", Num(10))
    [] name = "BoundedNumber<short, -5, 10>"
         -> Args("short", "int", Num(-5), "int", Num(10))
    [] name = "BoundedNumber<float, 0, 16777219>"
         -> Args("float", "int", Num(0), "int", Num(16777219))
    [] name = "dBn" -> Args("int", "int", Num(0), "int", Num(1000))
    [] name = "dB"  -> Args("double", "int", Num(-100), "int", Num(0))
    [] name = "BoundedNumber<unsigned char, -128, 127>"
         -> Args("unsigned char", "int", Num(-128), "int", Num(127))
    [] name = "BoundedNumber<signed char, 0, 200>"
         -> Args("signed char", "int", Num(0), "int", Num(200))
    [] name = "BoundedNumber<int, 10, 5>"
         -> Args("int", "int", Num(10), "int", Num(5))
    [] name = "BoundedNumber<int*, 0, 10>"
         -> Args("int*", "int", Num(0), "int", Num(10))

Instantiations ==
  {"BoundedNumber<unsigned int, -1, 10>", "BoundedNumber<short, -5, 10>",
   "BoundedNumber<float, 0, 16777219>", "dBn", "dB",
   "BoundedNumber<unsigned char, -128, 127>", "BoundedNumber<signed char, 0, 200>",
   "BoundedNumber<int, 10, 5>", "BoundedNumber<int*, 0, 10>"}

\* the class template's constraint: requires CanContainBounds<T, Min, Max>
Instantiable(name) ==
  CanContainBounds(Params(name).T, Params(name).Min, Params(name).Max)

\* the constraint of set (and so of the constructor, which calls it)
set_requires(T, U) ==
  SameNumericType(T, U) \/ (floating_point(T) /\ integral(U))

\* the standard libraries a build may link
StdLibs == {"libstdc++", "libc++", "libstdc++ with assertions"}

\* std::clamp(v, lo, hi).  With lo <= hi every library returns the same
\* value.  With hi < lo the behaviour is undefined: libstdc++ computes
\* std::min(std::max(v, lo), hi), libc++ computes v < lo ? lo : hi < v ? hi : v,
\* and libstdc++ with _GLIBCXX_ASSERTIONS aborts (see clamp_aborts).
clamp(v, lo, hi, lib) ==
  IF lib = "libc++"
  THEN IF Less(v, lo) THEN lo ELSE IF Less(hi, v) THEN hi ELSE v
  ELSE LET m == IF Less(v, lo) THEN lo ELSE v
       IN  IF Less(hi, m) THEN hi ELSE m

clamp_aborts(lo, hi, lib) == lib = "libstdc++ with assertions" /\ Less(hi, lo)

\* the type in which set<U> clamps: U when `if constexpr` takes its first
\* branch, T otherwise
ClampType(I, U) == IF CanContainBounds(U, I.Min, I.Max) THEN U ELSE I.T

\* the bounds handed to std::clamp
ClampLo(I, U) == static_cast(ClampType(I, U), I.Min.val)
ClampHi(I, U) == static_cast(ClampType(I, U), I.Max.val)

\* set<U> without its first branch: the input is always converted to T
\* before it is clamped
set_value_narrow_first(I, U, v, lib) ==
  clamp(static_cast(I.T, v), static_cast(I.T, I.Min.val), static_cast(I.T, I.Max.val), lib)

\* set<U> on an instance of type BoundedNumber<I.T, I.Min, I.Max>, v a
\* value of U: the value it assigns to m_value
set_value(I, U, v, lib) ==
  IF CanContainBounds(U, I.Min, I.Max)
  THEN static_cast(I.T, clamp(v, static_cast(U, I.Min.val), static_cast(U, I.Max.val), lib))
  ELSE clamp(static_cast(I.T, v), static_cast(I.T, I.Min.val), static_cast(I.T, I.Max.val), lib)

set_aborts(I, U, lib) == clamp_aborts(ClampLo(I, U), ClampHi(I, U), lib)

\* what a call of set<U>(v) does: abort, or assign a value
Outcome(abort, val) == [aborted |-> abort, m_value |-> val]

set_outcome(I, U, v, lib) ==
  IF set_aborts(I, U, lib) THEN Outcome(TRUE, Num(0))
                           ELSE Outcome(FALSE, set_value(I, U, v, lib))

(***************************************************************************)
(* The inputs                                                              *)
(***************************************************************************)
\* the types of the values handed to the constructor and to set
InputTypes ==
  {"signed char", "unsigned char", "short", "unsigned short", "int",
   "unsigned int", "long long", "unsigned long long", "float", "double",
   "long double"}

\* the values of type U the model hands in
Inputs(U) ==
  CASE U = "signed char" -> {numeric_limits_lowest(U)}
    [] U = "unsigned char" -> {numeric_limits_max(U)}
    [] U = "short" -> {numeric_limits_lowest(U)}
    [] U = "unsigned short" -> {numeric_limits_max(U)}
    [] U = "int" -> {Num(-101), Num(-1), Num(0), Num(10), Num(1000), Num(16777219)}
    [] U = "unsigned int" -> {Num(5), numeric_limits_max(U)}
    [] U = "long long" -> {numeric_limits_lowest(U), numeric_limits_max(U)}
    [] U = "unsigned long long" -> {Num(1001), numeric_limits_max(U)}
    [] U = "float" -> {Scale(Num(-21), -1)}
    [] U = "double" -> {Scale(Num(-21), -1), Num(-100), Num(0)}
    [] U = "long double" -> {numeric_limits_lowest(U), numeric_limits_max(U)}

\* the literals handed to operator""_dbn
Literals == {Num(0), Num(10), Num(1000), Num(1001), numeric_limits_max("unsigned long long")}

(***************************************************************************)
(* The program: objects of one BoundedNumber type and the calls on them.   *)
(* Instantiations are unrelated classes without static members, so the     *)
(* model follows the objects of one instantiation per run.                 *)
(***************************************************************************)
NumObjs == 2

Objs == 1..NumObjs

VARIABLES
  type,     \* the instantiation the program uses
  stdlib,   \* the standard library the program is built with
  objs,     \* objs[i]: the i-th variable of that type
  aborted,  \* the program was aborted by a failed library assertion
  last      \* the call made last: its kind, object, argument type and value

vars == <<type, stdlib, objs, aborted, last>>

NoObject == [live |-> FALSE, m_value |-> Num(0)]

Call(op, i, U, v) == [op |-> op, obj |-> i, U |-> U, v |-> v]

Init ==
  /\ type \in Instantiations
  /\ stdlib \in StdLibs
  /\ objs = [i \in Objs |-> NoObject]
  /\ aborted = FALSE
  /\ last = Call("none", 0, "none", Num(0))

\* T, Min and Max of the program's instantiation
T   == Params(type).T
Min == Params(type).Min
Max == Params(type).Max

\* m_value as a static member: the assignment reaches every live object
StoreShared(os, i, val) ==
  [j \in DOMAIN os |-> IF os[j].live \/ j = i THEN [os[j] EXCEPT !.m_value = val] ELSE os[j]]

\* m_value = val on object i
Store(os, i, val) == [os EXCEPT ![i].m_value = val]

\* set_outcome on the model's instantiations and inputs, evaluated once
SetOutcomes ==
  [name \in Instantiations |->
    [U \in {u \in InputTypes : set_requires(Params(name).T, u)} |->
      [v \in Inputs(U) \cup (IF U = "unsigned long long" THEN Literals ELSE {}) |->
        [lib \in StdLibs |-> set_outcome(Params(name), U, v, lib)]]]]

\* the values m_value can hold in an object of the instantiation `name`, and
\* set_outcome of x.set(x.value()) on them, evaluated once
StoredValues(name) ==
  LET I   == Params(name)
      tab == SetOutcomes[name]
      all == UNION {UNION {{tab[U][v][lib] : lib \in StdLibs} : v \in DOMAIN tab[U]} :
                    U \in DOMAIN tab}
  IN  {o.m_value : o \in all}
      \cup {static_cast(I.T, ClampLo(I, I.T)), static_cast(I.T, ClampHi(I, I.T))}

ReassignOutcomes ==
  [name \in {n \in Instantiations : Instantiable(n)} |->
    [m \in StoredValues(name) |->
      [lib \in StdLibs |-> set_outcome(Params(name), Params(name).T, m, lib)]]]

InstantiableTypes == {name \in Instantiations : Instantiable(name)}

\* the effect of one outcome of set on object i
DoSet(os, i, o) ==
  /\ aborted' = o.aborted
  /\ objs' = IF o.aborted THEN objs ELSE Store(os, i, o.m_value)

\* constexpr explicit BoundedNumber(auto v) { set(v); }
BoundedNumber(i, U, v) ==
  /\ ~aborted
  /\ ~objs[i].live
  /\ type \in InstantiableTypes
  /\ U \in DOMAIN SetOutcomes[type]
  /\ DoSet([objs EXCEPT ![i] = [live |-> TRUE, m_value |-> Num(0)]], i,
           SetOutcomes[type][U][v][stdlib])
  /\ last' = Call("BoundedNumber", i, U, v)
  /\ UNCHANGED <<type, stdlib>>

\* x.set(v)
set(i, U, v) ==
  /\ ~aborted
  /\ objs[i].live
  /\ U \in DOMAIN SetOutcomes[type]
  /\ DoSet(objs, i, SetOutcomes[type][U][v][stdlib])
  /\ last' = Call("set", i, U, v)
  /\ UNCHANGED <<type, stdlib>>

\* x.set(x.value())
Reassign(i) ==
  /\ ~aborted
  /\ objs[i].live
  /\ DoSet(objs, i, ReassignOutcomes[type][objs[i].m_value][stdlib])
  /\ last' = Call("set(value())", i, T, objs[i].m_value)
  /\ UNCHANGED <<type, stdlib>>

\* x.value(); last.v is the value returned
value(i) ==
  /\ ~aborted
  /\ objs[i].live
  /\ last' = Call("value", i, T, objs[i].m_value)
  /\ UNCHANGED <<type, stdlib, objs, aborted>>

\* auto y = x;  (the implicit copy constructor)
Copy(i, j) ==
  /\ ~aborted
  /\ objs[i].live
  /\ ~objs[j].live
  /\ objs' = [objs EXCEPT ![j] = objs[i]]
  /\ last' = Call("copy", j, T, objs[i].m_value)
  /\ UNCHANGED <<type, stdlib, aborted>>

\* y = x;  (the implicit copy assignment; the implicit move assignment does
\* the same, the class being trivially copyable): object j takes the m_value
\* of object i, both alive; i = j is the self-assignment
operator_assign(i, j) ==
  /\ ~aborted
  /\ objs[i].live
  /\ objs[j].live
  /\ objs' = Store(objs, j, objs[i].m_value)
  /\ last' = Call("operator=", j, T, objs[i].m_value)
  /\ UNCHANGED <<type, stdlib, aborted>>

\* the end of the lifetime of object i (the implicit destructor)
destructor(i) ==
  /\ ~aborted
  /\ objs[i].live
  /\ objs' = [objs EXCEPT ![i] = NoObject]
  /\ last' = Call("~BoundedNumber", i, T, objs[i].m_value)
  /\ UNCHANGED <<type, stdlib, aborted>>

\* operator""_dbn(unsigned long long value) { return dBn(value); }
operator_dbn(i, n) ==
  /\ ~aborted
  /\ ~objs[i].live
  /\ type = "dBn"
  /\ type \in InstantiableTypes
  /\ DoSet([objs EXCEPT ![i] = [live |-> TRUE, m_value |-> Num(0)]], i,
           SetOutcomes[type]["unsigned long long"][n][stdlib])
  /\ last' = Call("_dbn", i, "unsigned long long", n)
  /\ UNCHANGED <<type, stdlib>>

Next ==
  \/ \E i \in Objs, U \in InputTypes : \E v \in Inputs(U) : BoundedNumber(i, U, v)
  \/ \E i \in Objs, U \in InputTypes : \E v \in Inputs(U) : set(i, U, v)
  \/ \E i \in Objs : Reassign(i)
  \/ \E i \in Objs : value(i)
  \/ \E i, j \in Objs : Copy(i, j)
  \/ \E i, j \in Objs : operator_assign(i, j)
  \/ \E i \in Objs : destructor(i)
  \/ \E i \in Objs, n \in Literals : operator_dbn(i, n)

Spec == Init /\ [][Next]_vars

(***************************************************************************)
(* Vocabulary of the properties                                            *)
(***************************************************************************)
\* the call made last ran set: directly, through the constructor or through
\* the literal operator
IsSetCall == last.op \in {"BoundedNumber", "set", "set(value())", "_dbn"}

\* Min <= x <= Max as mathematical numbers
InRange(x) == LessEq(Min.val, x) /\ LessEq(x, Max.val)

\* t is arithmetic and its range covers [lo, hi], as mathematical numbers
Covers(t, lo, hi) ==
  /\ is_arithmetic(t)
  /\ LessEq(hi.val, numeric_limits_max(t))
  /\ LessEq(numeric_limits_lowest(t), lo.val)
  /\ LessEq(lo.val, hi.val)

(***************************************************************************)
(* Properties                                                              *)
(***************************************************************************)
\* C1: the value stored in every object lies in [Min, Max], as mathematical
\* numbers, after the construction and any number of set calls.
C1_RangeInvariant ==
  \A i \in Objs : objs[i].live => InRange(objs[i].m_value)

\* C2: a call that hands in a value v within [Min, Max] stores v converted
\* to T; handing in Min stores Min and handing in Max stores Max.
C2_IdentityInRange ==
  (IsSetCall /\ ~aborted /\ InRange(last.v)) =>
    /\ objs[last.obj].m_value = static_cast(T, last.v)
    /\ last.v = Min.val => objs[last.obj].m_value = Min.val
    /\ last.v = Max.val => objs[last.obj].m_value = Max.val

\* C3: handing in numeric_limits<U>::max(), when it is above Max, stores
\* Max; handing in numeric_limits<U>::lowest(), when it is below Min,
\* stores Min.
C3_SaturationAtExtremes ==
  (IsSetCall /\ ~aborted) =>
    /\ (last.v = numeric_limits_max(last.U) /\ Less(Max.val, last.v))
         => objs[last.obj].m_value = Max.val
    /\ (last.v = numeric_limits_lowest(last.U) /\ Less(last.v, Min.val))
         => objs[last.obj].m_value = Min.val

\* C4: CanContainBounds<T, Min, Max> holds exactly when T is arithmetic and
\* its range covers [Min, Max] as mathematical numbers (T an integer type
\* or no arithmetic type, Min and Max signed), so no object exists of an
\* instantiation whose T does not cover its bounds.
C4_Representability ==
  /\ (\E i \in Objs : objs[i].live) => Covers(T, Min, Max)
  /\ (~floating_point(T) /\ Min.ty \in SignedTypes /\ Max.ty \in SignedTypes
      /\ Covers(T, Min, Max)) => Instantiable(type)

\* C5: a call is accepted exactly for U and T both integral, both floating
\* point, or T floating point and U integral, and every accepted call
\* completes without an error.
C5_AcceptedInputGate ==
  IsSetCall =>
    /\ \/ integral(T) /\ integral(last.U)
       \/ floating_point(T) /\ (floating_point(last.U) \/ integral(last.U))
    /\ ~aborted

\* C6: n_dbn is a dBn holding n when n <= 1000 and 1000 otherwise, and it
\* is available for every literal n.
C6_LiteralConstruction ==
  /\ last.op = "_dbn" =>
       /\ ~aborted
       /\ type = "dBn"
       /\ objs[last.obj].live
       /\ objs[last.obj].m_value =
            IF LessEq(last.v, Num(1000)) THEN last.v ELSE Num(1000)
  /\ \A i \in Objs, n \in Literals :
       (type = "dBn" /\ ~aborted /\ ~objs[i].live) => ENABLED operator_dbn(i, n)

C6_Witness ==
  /\ last.op = "_dbn"
  /\ last.v = numeric_limits_max("unsigned long long")
  /\ objs[last.obj].m_value = Num(1000)

\* C7: a call changes no object but the one it is made on, value() changes
\* no object at all, and value() called twice in a row on an object returns
\* the same value.
C7_Frame ==
  [][/\ \A j \in Objs : j # last'.obj => objs'[j] = objs[j]
     /\ last'.op = "value" => objs' = objs
     /\ (last.op = "value" /\ last'.op = "value" /\ last'.obj = last.obj)
          => last'.v = last.v]_vars

C7_Witness ==
  /\ last.op = "set"
  /\ ~aborted
  /\ \E j \in Objs : /\ j # last.obj
                     /\ objs[j].live
                     /\ objs[j].m_value # objs[last.obj].m_value

\* C8: when set converts its input to T before clamping (U cannot contain
\* the bounds), the conversion keeps the input's value.
C8_NarrowFirstLossless ==
  (IsSetCall /\ ~CanContainBounds(last.U, Min, Max)) =>
    static_cast(T, last.v) = last.v

\* C9: std::clamp is always called with a lower bound that is not greater
\* than the upper bound, once both are converted to the clamping type.
C9_ClampBoundsOrdered ==
  IsSetCall => LessEq(ClampLo(Params(type), last.U), ClampHi(Params(type), last.U))

\* C10: x.set(x.value()) leaves x.value() unchanged.
C10_ReclampIdempotent ==
  last.op = "set(value())" => objs[last.obj].m_value = last.v

====
